---- MODULE Spec2Model ----
(***************************************************************************)
(* TransactiTrack: the users/transactions store (app/models.py and the     *)
(* alembic migration), the data-access layer (app/crud.py) and the request *)
(* handlers that call it (app/main.py, app/admin.py).                      *)
(*                                                                         *)
(* The store is PostgreSQL at its default isolation level READ COMMITTED   *)
(* (app/database.py sets none): a statement sees the rows committed when   *)
(* it starts, a transaction's writes become visible to others at its       *)
(* commit, and the unique and foreign-key constraints are checked by the   *)
(* statement that writes.  Every request runs on a session of its own      *)
(* (async_get_db), so requests interleave statement by statement.  A       *)
(* request starts with its first statement; its outcome stays in req[p]    *)
(* until the response is sent, which is its last step and is taken before  *)
(* any other request moves (sending touches nothing but req[p]).           *)
(***************************************************************************)
EXTENDS Integers, Sequences, FiniteSets, TLC

\* ---------------------------------------------------------------- bounds
MaxProcs == 2
MaxUserId == 2
MaxTxId == 2
MaxClock == 2

Procs == 1..MaxProcs
UserIds == 1..MaxUserId
Usernames == {"alice", "carol"}
TxInputs == {[type |-> "credit", amount |-> 50], [type |-> "debit", amount |-> 20]}
Bodies == {{"user_id", "type", "amount"}, {"user_id", "type", "amount", "id", "timestamp"}}

\* ----------------------------------------------------------------- state
VARIABLES users, transactions, users_id_seq, transactions_id_seq, now, req

vars == <<users, transactions, users_id_seq, transactions_id_seq, now, req>>

\* ------------------------------------------------------- values and rows
NoTx == [type |-> "", amount |-> 0]

NoRet == [kind |-> "pending"]

ReturnNone == [kind |-> "None"]

\* a value returned from an except clause that caught the exception e
Caught(e, v) == [kind |-> "value", val |-> v, caught |-> e]

Return(v) == [kind |-> "value", val |-> v]

Raise(e) == [kind |-> "raise", exc |-> e]

NoResp == [status |-> 0]

HTTPException(code, text) == [status |-> code, detail |-> text]

JSONResponse(b) == [status |-> 200, body |-> b]

RedirectResponse(url) == [status |-> 302, location |-> url]

ServerError == [status |-> 500, detail |-> "Internal Server Error"]

RequestValidationError == [status |-> 422, detail |-> "Field required"]

Idle ==
  [op |-> "idle", pc |-> "idle", id |-> 0, username |-> "", tx |-> NoTx,
   fields |-> {}, objs |-> <<>>, pend |-> {}, seen |-> {}, new |-> 0,
   ret |-> NoRet, resp |-> NoResp]

\* models.User as loaded by a SELECT: the row and its (not yet loaded) collection
User(i) == [id |-> i, username |-> users[i], transactions |-> <<>>]

\* models.Transaction as loaded by a SELECT
Transaction(t) ==
  [id |-> t, user_id |-> transactions[t].user_id, type |-> transactions[t].type,
   amount |-> transactions[t].amount, timestamp |-> transactions[t].timestamp]

\* every order in which a statement without ORDER BY may return the rows of S
Orders(S) ==
  {s \in [1..Cardinality(S) -> S] : \A i, j \in DOMAIN s : i # j => s[i] # s[j]}

\* the transaction rows that reference user i
RowsOf(i) == {t \in DOMAIN transactions : transactions[t].user_id = i}

\* selectinload(User.transactions): one SELECT ... WHERE user_id IN (ids), its
\* rows (returned in the order ord) appended to the collection of their owner
selectinload(objs, ord) ==
  [k \in DOMAIN objs |->
     [objs[k] EXCEPT !.transactions =
        LET mine(t) == transactions[t].user_id = objs[k].id
            sel == SelectSeq(ord, mine)
        IN  [n \in DOMAIN sel |-> Transaction(sel[n])]]]

LoadedIds(objs) == {objs[k].id : k \in DOMAIN objs}

Min(a, b) == IF a < b THEN a ELSE b

\* --------------------------------------------------------- schemas.py
\* the fields schemas.Transaction declares, all of them required
schemas_Transaction == {"type", "amount", "id", "timestamp"}

\* schemas.Transaction.model_validate of a models.Transaction
TransactionOut(t) ==
  [type |-> t.type, amount |-> t.amount, id |-> t.id, timestamp |-> t.timestamp]

\* schemas.User.model_validate of a models.User (the response_model of GET /users/{id})
UserOut(u) ==
  [username |-> u.username, id |-> u.id,
   transactions |-> [n \in DOMAIN u.transactions |-> TransactionOut(u.transactions[n])]]

\* schemas.UserId.model_validate of a models.User
UserId(u) == [id |-> u.id]

\* ------------------------------------------------------------------ Init
Init ==
  /\ users = [i \in {} |-> ""]
  /\ transactions = [t \in {} |-> NoTx]
  /\ users_id_seq = 1
  /\ transactions_id_seq = 1
  /\ now = 1
  /\ req = [p \in Procs |-> Idle]

\* no response is waiting to be sent
Quiet == \A q \in Procs : req[q].pc # "done"

Free(p) == Quiet /\ req[p].pc = "idle"

At(p, pc) == Quiet /\ req[p].pc = pc

Begin(p, r) == req' = [req EXCEPT ![p] = r]

Done(p, r, h) ==
  req' = [req EXCEPT ![p].pc = "done", ![p].ret = r, ![p].resp = h,
                     ![p].objs = <<>>, ![p].pend = {}]

\* the response is sent and the session closed (async_get_db)
respond(p) ==
  /\ req[p].pc = "done"
  /\ req' = [req EXCEPT ![p] = Idle]
  /\ UNCHANGED <<users, transactions, users_id_seq, transactions_id_seq, now>>

\* ------------------------------------------------- POST /users/ (add_user)
\* mutant of add_user_except: the conflict is answered with a 409 of its own
add_user_except_409(e) ==
  IF e = "IntegrityError"
    THEN HTTPException(409, "Username already exists")
    ELSE HTTPException(500, "Error creating user")

\* the except clause of main.add_user: every exception becomes the same 500
add_user_except(e) == HTTPException(500, "Error creating user")

add_user_response(r) ==
  IF r.kind = "raise" THEN add_user_except(r.exc) ELSE JSONResponse(r.val)

\* mutant of username_taken: users.username carries no unique index
username_not_unique(name, self) == FALSE

\* the unique index on users.username: another row than `self` holds the name
username_taken(name, self) ==
  \E i \in DOMAIN users : i # self /\ users[i] = name

\* main.add_user -> crud.create_user: db.add + db.commit, one INSERT in its own
\* transaction.  The id comes from the sequence, which a failed INSERT consumes too.
add_user(p, username) ==
  /\ Free(p)
  /\ users_id_seq <= MaxUserId
  /\ users_id_seq' = users_id_seq + 1
  /\ LET r == [Idle EXCEPT !.op = "add_user", !.username = username, !.new = users_id_seq]
     IN  IF username_taken(username, 0)
           THEN /\ Begin(p, [r EXCEPT !.pc = "done", !.ret = Raise("IntegrityError"),
                                      !.resp = add_user_response(Raise("IntegrityError"))])
                /\ UNCHANGED users
           ELSE /\ users' = (users_id_seq :> username) @@ users
                /\ Begin(p, [r EXCEPT !.pc = "create_user_refresh"])
  /\ UNCHANGED <<transactions, transactions_id_seq, now>>

\* crud.create_user: db.refresh(db_user) and the return of schemas.UserId
create_user_refresh(p) ==
  /\ At(p, "create_user_refresh")
  /\ LET r == IF req[p].new \in DOMAIN users
                THEN Return(UserId(User(req[p].new)))
                ELSE Raise("InvalidRequestError")
     IN  Done(p, r, add_user_response(r))
  /\ UNCHANGED <<users, transactions, users_id_seq, transactions_id_seq, now>>

\* ------------------------------------------- GET /users/{user_id} (get_user)
\* main.get_user: the HTTPException(404) it raises for a missing user is raised
\* inside its own try block, whose `except Exception` catches it as well
get_user_except(e) == HTTPException(500, "Error fetching user")

get_user_response(r) ==
  IF r.kind = "raise" THEN get_user_except(r.exc)
  ELSE IF r.kind = "None" THEN get_user_except(HTTPException(404, "User not found"))
  ELSE JSONResponse(UserOut(r.val))

\* main.get_user -> crud.get_user, first statement: SELECT users WHERE id = user_id.
\* seen records the transaction rows the user owns when this statement runs.
get_user(p, user_id) ==
  /\ Free(p)
  /\ LET r == [Idle EXCEPT !.op = "get_user", !.id = user_id]
     IN  IF user_id \in DOMAIN users
           THEN Begin(p, [r EXCEPT !.pc = "get_user_selectin", !.objs = <<User(user_id)>>,
                                   !.seen = RowsOf(user_id)])
           ELSE Begin(p, [r EXCEPT !.pc = "done", !.ret = ReturnNone,
                                   !.resp = get_user_response(ReturnNone)])
  /\ UNCHANGED <<users, transactions, users_id_seq, transactions_id_seq, now>>

\* crud.get_user, second statement: the selectinload of the user's transactions
get_user_selectin(p) ==
  /\ At(p, "get_user_selectin")
  /\ \E ord \in Orders(RowsOf(req[p].id)) :
       LET r == Return(selectinload(req[p].objs, ord)[1])
       IN  Done(p, r, get_user_response(r))
  /\ UNCHANGED <<users, transactions, users_id_seq, transactions_id_seq, now>>

\* ------------------------------------ POST /transactions/ (add_transaction)
add_transaction_except(e) == HTTPException(500, "Error adding transaction")

\* what main.add_transaction answers for the outcome r of crud.add_transaction
add_transaction_response(r) ==
  IF r.kind = "raise" THEN add_transaction_except(r.exc) ELSE JSONResponse(r.val)

\* the answer of the caller of crud.add_transaction: the handler's, or none when
\* the data-access layer was called directly
caller_response(op, r) ==
  IF op = "post_transaction" THEN add_transaction_response(r) ELSE NoResp

\* mutant of add_transaction: transactions.user_id carries no foreign key
add_transaction_unchecked(p, r, user_id, tx) ==
  /\ transactions_id_seq <= MaxTxId
  /\ transactions_id_seq' = transactions_id_seq + 1
  /\ \E ts \in now..Min(now + 1, MaxClock) :
       /\ now' = ts
       /\ transactions' =
            (transactions_id_seq :>
               [user_id |-> user_id, type |-> tx.type,
                amount |-> tx.amount, timestamp |-> ts]) @@ transactions
       /\ Begin(p, [r EXCEPT !.pc = "add_transaction_refresh", !.new = transactions_id_seq])
  /\ UNCHANGED <<users, users_id_seq>>

\* crud.add_transaction: db.add + db.commit, one INSERT in its own transaction.
\* The foreign key transactions.user_id -> users.id is checked by the INSERT;
\* timestamp is the server default now().
add_transaction(p, r, user_id, tx) ==
  /\ transactions_id_seq <= MaxTxId
  /\ transactions_id_seq' = transactions_id_seq + 1
  /\ \E ts \in now..Min(now + 1, MaxClock) :
       /\ now' = ts
       /\ IF user_id \in DOMAIN users
            THEN /\ transactions' =
                      (transactions_id_seq :>
                         [user_id |-> user_id, type |-> tx.type,
                          amount |-> tx.amount, timestamp |-> ts]) @@ transactions
                 /\ Begin(p, [r EXCEPT !.pc = "add_transaction_refresh",
                                       !.new = transactions_id_seq])
            ELSE /\ Begin(p, [r EXCEPT !.pc = "done", !.ret = Raise("IntegrityError"),
                                       !.resp = caller_response(r.op, Raise("IntegrityError"))])
                 /\ UNCHANGED transactions
  /\ UNCHANGED <<users, users_id_seq>>

\* the data-access layer's AddTransaction, called directly
crud_add_transaction(p, user_id, tx) ==
  /\ Free(p)
  /\ add_transaction(p, [Idle EXCEPT !.op = "crud_add_transaction", !.id = user_id, !.tx = tx],
                     user_id, tx)

\* main.add_transaction.  The body is validated against schemas.Transaction
\* before the handler runs; the handler then reads transaction.user_id, an
\* attribute schemas.Transaction does not have.
post_transaction(p, fields, user_id, tx) ==
  /\ Free(p)
  /\ LET r == [Idle EXCEPT !.op = "post_transaction", !.fields = fields,
                           !.id = user_id, !.tx = tx]
     IN  IF ~(schemas_Transaction \subseteq fields)
           THEN /\ Begin(p, [r EXCEPT !.pc = "done", !.resp = RequestValidationError])
                /\ UNCHANGED <<users, transactions, users_id_seq, transactions_id_seq, now>>
         ELSE IF "user_id" \notin schemas_Transaction
           THEN /\ Begin(p, [r EXCEPT !.pc = "done", !.ret = Raise("AttributeError"),
                                      !.resp = add_transaction_except("AttributeError")])
                /\ UNCHANGED <<users, transactions, users_id_seq, transactions_id_seq, now>>
         ELSE add_transaction(p, r, user_id, tx)

\* crud.add_transaction: db.refresh(db_transaction) and the return of the row
add_transaction_refresh(p) ==
  /\ At(p, "add_transaction_refresh")
  /\ LET r == IF req[p].new \in DOMAIN transactions
                THEN Return(Transaction(req[p].new))
                ELSE Raise("InvalidRequestError")
     IN  Done(p, r, caller_response(req[p].op, r))
  /\ UNCHANGED <<users, transactions, users_id_seq, transactions_id_seq, now>>

\* ------------------------------------- POST /admin/users/{user_id} (update_user)
\* admin.update_user ignores what crud.update_user returns and lets what it raises through
update_user_response(r) ==
  IF r.kind = "raise" THEN ServerError ELSE RedirectResponse("/admin/")

\* mutant of update_user: a missing row is inserted instead of reported
update_user_upsert(p, user_id, username) ==
  /\ Free(p)
  /\ LET r == [Idle EXCEPT !.op = "update_user", !.id = user_id, !.username = username]
     IN  IF user_id \in DOMAIN users
           THEN /\ Begin(p, [r EXCEPT !.pc = "update_query", !.objs = <<User(user_id)>>])
                /\ UNCHANGED users
           ELSE /\ users' = (user_id :> username) @@ users
                /\ Begin(p, [r EXCEPT !.pc = "done", !.ret = ReturnNone,
                                      !.resp = RedirectResponse("/admin/")])
  /\ UNCHANGED <<transactions, users_id_seq, transactions_id_seq, now>>

\* admin.update_user -> crud.update_user, first statement: SELECT users WHERE id = user_id
update_user(p, user_id, username) ==
  /\ Free(p)
  /\ LET r == [Idle EXCEPT !.op = "update_user", !.id = user_id, !.username = username]
     IN  IF user_id \in DOMAIN users
           THEN Begin(p, [r EXCEPT !.pc = "update_query", !.objs = <<User(user_id)>>])
           ELSE Begin(p, [r EXCEPT !.pc = "done", !.ret = ReturnNone,
                                   !.resp = update_user_response(ReturnNone)])
  /\ UNCHANGED <<users, transactions, users_id_seq, transactions_id_seq, now>>

\* crud.update_user: UPDATE users SET username WHERE id = user_id, db.commit, and
\* the return of the object the SELECT loaded (the session does not expire it)
update_query(p) ==
  /\ At(p, "update_query")
  /\ LET user_id == req[p].id
         username == req[p].username
     IN  IF user_id \in DOMAIN users /\ username_taken(username, user_id)
           THEN /\ Done(p, Raise("IntegrityError"), update_user_response(Raise("IntegrityError")))
                /\ UNCHANGED users
           ELSE /\ users' = [i \in DOMAIN users |-> IF i = user_id THEN username ELSE users[i]]
                /\ Done(p, Return(req[p].objs[1]), update_user_response(Return(req[p].objs[1])))
  /\ UNCHANGED <<transactions, users_id_seq, transactions_id_seq, now>>

\* ------------------------------ POST /admin/users/{user_id}/delete (delete_user)
\* admin.delete_user ignores the row count crud.delete_user returns
delete_user_response(r) == RedirectResponse("/admin/")

\* a row lock: another open transaction has deleted one of the rows S
locked(p, S) ==
  \E q \in Procs \ {p} : req[q].pc = "delete_user_query" /\ req[q].pend \cap S # {}

\* mutant of delete_user: the first DELETE is committed on its own
delete_user_autocommit(p, user_id) ==
  /\ Free(p)
  /\ ~locked(p, RowsOf(user_id))
  /\ transactions' = [t \in DOMAIN transactions \ RowsOf(user_id) |-> transactions[t]]
  /\ Begin(p, [Idle EXCEPT !.op = "delete_user", !.pc = "delete_user_query",
                           !.id = user_id, !.pend = RowsOf(user_id),
                           !.seen = RowsOf(user_id)])
  /\ UNCHANGED <<users, users_id_seq, transactions_id_seq, now>>

\* mutant of delete_user: the first DELETE has no WHERE clause
delete_user_every_row(p, user_id) ==
  /\ Free(p)
  /\ ~locked(p, DOMAIN transactions)
  /\ Begin(p, [Idle EXCEPT !.op = "delete_user", !.pc = "delete_user_query",
                           !.id = user_id, !.pend = DOMAIN transactions,
                           !.seen = RowsOf(user_id)])
  /\ UNCHANGED <<users, transactions, users_id_seq, transactions_id_seq, now>>

\* admin.delete_user -> crud.delete_user: db.begin() and the first statement,
\* DELETE FROM transactions WHERE user_id = user_id, not committed yet
delete_user(p, user_id) ==
  /\ Free(p)
  /\ ~locked(p, RowsOf(user_id))
  /\ Begin(p, [Idle EXCEPT !.op = "delete_user", !.pc = "delete_user_query",
                           !.id = user_id, !.pend = RowsOf(user_id),
                           !.seen = RowsOf(user_id)])
  /\ UNCHANGED <<users, transactions, users_id_seq, transactions_id_seq, now>>

\* crud.delete_user: DELETE FROM users WHERE id = user_id and db.commit.  The
\* foreign key is checked against the committed rows the transaction has not
\* deleted; its violation is an IntegrityError, which leaves the `async with`
\* block (rollback) and is answered with 0.  Otherwise both deletions commit.
delete_user_query(p) ==
  /\ At(p, "delete_user_query")
  /\ LET user_id == req[p].id
     IN  IF RowsOf(user_id) \ req[p].pend # {}
           THEN /\ Done(p, Caught("IntegrityError", 0), delete_user_response(0))
                /\ UNCHANGED <<users, transactions>>
           ELSE /\ users' = [i \in DOMAIN users \ {user_id} |-> users[i]]
                /\ transactions' =
                     [t \in DOMAIN transactions \ req[p].pend |-> transactions[t]]
                /\ LET rowcount == IF user_id \in DOMAIN users THEN 1 ELSE 0
                   IN  Done(p, Return(rowcount), delete_user_response(rowcount))
  /\ UNCHANGED <<users_id_seq, transactions_id_seq, now>>

\* ----------------------------------------------- GET /admin/ (admin_dashboard)
RECURSIVE sum(_)
\* Python's sum over a list
sum(xs) == IF xs = <<>> THEN 0 ELSE Head(xs) + sum(Tail(xs))

RECURSIVE flatten(_)
\* [t for user in us for t in user.transactions]
flatten(us) == IF us = <<>> THEN <<>> ELSE Head(us).transactions \o flatten(Tail(us))

\* datetime.isoformat
isoformat(ts) == <<"isoformat", ts>>

users_data(us) ==
  [k \in DOMAIN us |->
     [id |-> us[k].id, username |-> us[k].username,
      transaction_count |-> Len(us[k].transactions)]]

total_transactions(us) == sum([k \in DOMAIN us |-> Len(us[k].transactions)])

\* mutant of total_amount: a debit is subtracted
total_amount_signed(us) ==
  sum([k \in DOMAIN us |->
         sum([n \in DOMAIN us[k].transactions |->
                IF us[k].transactions[n].type = "debit"
                  THEN 0 - us[k].transactions[n].amount
                  ELSE us[k].transactions[n].amount])])

total_amount(us) ==
  sum([k \in DOMAIN us |->
         sum([n \in DOMAIN us[k].transactions |-> us[k].transactions[n].amount])])

transaction_data(us) ==
  LET ts == flatten(us)
  IN  [dates |-> [n \in DOMAIN ts |-> isoformat(ts[n].timestamp)],
       amounts |-> [n \in DOMAIN ts |-> ts[n].amount]]

\* the context admin_dashboard hands to the template
dashboard_context(us) ==
  [users |-> users_data(us), total_transactions |-> total_transactions(us),
   total_amount |-> total_amount(us), transaction_data |-> transaction_data(us)]

\* admin_dashboard has no try block: what crud.get_all_users raises goes through
admin_dashboard_response(r) ==
  IF r.kind = "raise" THEN ServerError ELSE JSONResponse(dashboard_context(r.val))

\* admin.admin_dashboard -> crud.get_all_users, first statement: SELECT users,
\* without ORDER BY.  With no user loaded the selectinload has nothing to load.
admin_dashboard(p) ==
  /\ Free(p)
  /\ \E ord \in Orders(DOMAIN users) :
       LET r == [Idle EXCEPT !.op = "admin_dashboard"]
           us == [k \in DOMAIN ord |-> User(ord[k])]
       IN  IF us = <<>>
             THEN Begin(p, [r EXCEPT !.pc = "done", !.ret = Return(us),
                                     !.resp = admin_dashboard_response(Return(us))])
             ELSE Begin(p, [r EXCEPT !.pc = "get_all_users_selectin", !.objs = us])
  /\ UNCHANGED <<users, transactions, users_id_seq, transactions_id_seq, now>>

\* crud.get_all_users, second statement: the selectinload of the loaded users'
\* transactions; then the aggregation of admin_dashboard
get_all_users_selectin(p) ==
  /\ At(p, "get_all_users_selectin")
  /\ \E ord \in Orders({t \in DOMAIN transactions :
                          transactions[t].user_id \in LoadedIds(req[p].objs)}) :
       LET r == Return(selectinload(req[p].objs, ord))
       IN  Done(p, r, admin_dashboard_response(r))
  /\ UNCHANGED <<users, transactions, users_id_seq, transactions_id_seq, now>>

\* ------------------------------------------------- a failing store statement
\* what the caller of the data-access function answers when the function ends with r
response(op, r) ==
  CASE op = "add_user" -> add_user_response(r)
    [] op = "get_user" -> get_user_response(r)
    [] op = "update_user" -> update_user_response(r)
    [] op = "delete_user" -> delete_user_response(r)
    [] op = "admin_dashboard" -> admin_dashboard_response(r)
    [] OTHER -> caller_response(op, r)

\* the next statement of a request in flight fails in the store (connection or
\* backend failure).  Every data-access function logs and re-raises, except
\* delete_user, whose `except Exception` rolls back and returns 0.
store_failure(p) ==
  /\ Quiet
  /\ req[p].pc \notin {"idle", "done"}
  /\ LET r == IF req[p].op = "delete_user"
                THEN Caught("OperationalError", 0)
                ELSE Raise("OperationalError")
     IN  Done(p, r, response(req[p].op, r))
  /\ UNCHANGED <<users, transactions, users_id_seq, transactions_id_seq, now>>

Next ==
  \E p \in Procs :
    \/ \E n \in Usernames : add_user(p, n)
    \/ create_user_refresh(p)
    \/ \E i \in UserIds : get_user(p, i)
    \/ get_user_selectin(p)
    \/ \E i \in UserIds, tx \in TxInputs : crud_add_transaction(p, i, tx)
    \/ \E f \in Bodies, i \in UserIds, tx \in TxInputs : post_transaction(p, f, i, tx)
    \/ add_transaction_refresh(p)
    \/ \E i \in UserIds, n \in Usernames : update_user(p, i, n)
    \/ update_query(p)
    \/ \E i \in UserIds : delete_user(p, i)
    \/ delete_user_query(p)
    \/ admin_dashboard(p)
    \/ get_all_users_selectin(p)
    \/ store_failure(p)
    \/ respond(p)

Spec == Init /\ [][Next]_vars

\* ------------------------------------------------------------- properties
\* request p ends with this step, as an `op` request
Completes(p, op) == req[p].pc # "done" /\ req'[p].pc = "done" /\ req'[p].op = op

Finished(p, op) == req[p].pc = "done" /\ req[p].op = op

\* the ids of the transactions in the collection of a loaded user
Loaded(u) == {u.transactions[n].id : n \in DOMAIN u.transactions}

\* C1: DeleteUser is all-or-nothing.  When it returns 1 the user row is gone and
\* no transaction row references the id; the step on which it returns 0 leaves
\* users and transactions as they were; no step removes transaction rows of a
\* user that remains, and no transaction row references a missing user.
C1_DeleteUserAtomic ==
  /\ [](\A p \in Procs :
          Finished(p, "delete_user") /\ req[p].ret.val = 1 =>
            req[p].id \notin DOMAIN users /\ RowsOf(req[p].id) = {})
  /\ [](\A t \in DOMAIN transactions : transactions[t].user_id \in DOMAIN users)
  /\ [][\A p \in Procs :
          Completes(p, "delete_user") /\ req'[p].ret.val = 0 =>
            users' = users /\ transactions' = transactions]_vars
  /\ [][\A t \in DOMAIN transactions \ DOMAIN transactions' :
          transactions[t].user_id \notin DOMAIN users']_vars

\* a DeleteUser of a user that had transactions returned 1
C1_Witness ==
  \E p \in Procs :
    Finished(p, "delete_user") /\ req[p].ret.val = 1 /\ req[p].seen # {}

\* C2: a GetUser that returns the user returns it with every transaction the
\* user had when the user row was read (stated as the claim states it).
C2_GetUserNeverTorn ==
  \A p \in Procs :
    Finished(p, "get_user") /\ req[p].ret.kind = "value" =>
      req[p].seen \subseteq Loaded(req[p].ret.val)

\* C3: no two user rows share a username; a CreateUser of a username that
\* exists raises IntegrityError to its caller and inserts nothing, so exactly
\* one row holds the username.
C3_UniqueUsername ==
  /\ [](\A i, j \in DOMAIN users : users[i] = users[j] => i = j)
  /\ [](\A p \in Procs :
          Finished(p, "add_user") /\ req[p].ret = Raise("IntegrityError") =>
            Cardinality({i \in DOMAIN users : users[i] = req[p].username}) = 1)
  /\ [][\A p \in Procs :
          /\ req[p].pc = "idle"
          /\ req'[p].op = "add_user"
          /\ username_taken(req'[p].username, 0)
          => req'[p].ret = Raise("IntegrityError") /\ users' = users]_vars

\* a CreateUser of an existing username has raised IntegrityError
C3_Witness ==
  \E p \in Procs :
    /\ Finished(p, "add_user")
    /\ req[p].ret = Raise("IntegrityError")
    /\ username_taken(req[p].username, 0)

\* the failures of user creation other than the conflict
OtherFailures == {"InvalidRequestError", "OperationalError"}

\* C4 as claimed: the response of POST /users/ to an existing username differs
\* from its response to any other failure of user creation.
C4_ConflictDistinct ==
  \A p \in Procs :
    Finished(p, "add_user") /\ req[p].ret = Raise("IntegrityError") =>
      \A e \in OtherFailures : req[p].resp # add_user_response(Raise(e))

\* C4 amended: POST /users/ answers every failure of user creation, the
\* conflict included, with the one response 500 "Error creating user".
C4_ConflictIsGeneric500 ==
  \A p \in Procs :
    Finished(p, "add_user") /\ req[p].ret.kind = "raise" =>
      /\ req[p].resp = [status |-> 500, detail |-> "Error creating user"]
      /\ \A e \in OtherFailures : req[p].resp = add_user_response(Raise(e))

\* POST /users/ with an existing username has been answered
C4_Witness ==
  \E p \in Procs :
    /\ Finished(p, "add_user")
    /\ req[p].ret = Raise("IntegrityError")
    /\ req[p].resp.status = 500

\* C5: GET /users/{id} for an id without a user row answers 404 "User not found".
C5_NotFoundIs404 ==
  \A p \in Procs :
    Finished(p, "get_user") /\ req[p].ret.kind = "None" =>
      req[p].resp = [status |-> 404, detail |-> "User not found"]

\* C6: POST /transactions/ with a body of user_id, type and amount for an
\* existing user answers with the created transaction, a row owned by that user.
C6_PostTransactionCreates ==
  \A p \in Procs :
    /\ Finished(p, "post_transaction")
    /\ req[p].fields = {"user_id", "type", "amount"}
    /\ req[p].id \in DOMAIN users
    => /\ req[p].resp.status = 200
       /\ \E t \in RowsOf(req[p].id) :
            /\ transactions[t].type = req[p].tx.type
            /\ transactions[t].amount = req[p].tx.amount

\* C7: every transaction row references an existing user row; an AddTransaction
\* for an id without a user row raises and inserts no row.
C7_NoOrphanTransaction ==
  /\ [](\A t \in DOMAIN transactions : transactions[t].user_id \in DOMAIN users)
  /\ [][\A p \in Procs :
          /\ req[p].pc = "idle"
          /\ req'[p].op = "crud_add_transaction"
          /\ req'[p].id \notin DOMAIN users
          => req'[p].ret = Raise("IntegrityError") /\ transactions' = transactions]_vars

\* an AddTransaction for a missing user has raised, and a transaction exists
C7_Witness ==
  \E p \in Procs :
    /\ Finished(p, "crud_add_transaction")
    /\ req[p].ret = Raise("IntegrityError")
    /\ req[p].id \notin DOMAIN users
    /\ DOMAIN transactions # {}

\* what an UpdateUsername step leaves alone: the transactions, the set of user
\* rows and every user row but the one it names
UpdateFrame(p) ==
  /\ transactions' = transactions
  /\ DOMAIN users' = DOMAIN users
  /\ \A i \in DOMAIN users \ {req'[p].id} : users'[i] = users[i]

C9_DeleteMissingUser ==
  [][\A p \in Procs :
       /\ Completes(p, "delete_user")
       /\ req[p].id \notin DOMAIN users
       => /\ req'[p].ret.val = 0
          /\ users' = users
          /\ transactions' = transactions]_vars

\* a DeleteUser of an id without a user row has returned, other rows being stored
C9_Witness ==
  \E p \in Procs :
    /\ Finished(p, "delete_user")
    /\ req[p].ret = Return(0)
    /\ req[p].id \notin DOMAIN users
    /\ DOMAIN users # {}
    /\ DOMAIN transactions # {}

\* the positions (user, transaction) of a ListUsers result
Pairs(us) == UNION {{<<k, n>> : n \in DOMAIN us[k].transactions} : k \in DOMAIN us}

\* the transactions of a ListUsers result, as a set
TxRecords(us) ==
  UNION {{us[k].transactions[n] : n \in DOMAIN us[k].transactions} : k \in DOMAIN us}

RECURSIVE AmountOf(_)
\* the amounts of a set of transactions, added up in no particular order
AmountOf(S) ==
  IF S = {} THEN 0
  ELSE LET t == CHOOSE t \in S : TRUE IN t.amount + AmountOf(S \ {t})

\* the place of transaction n of user k in the user-major, transaction-minor order
Place(us, k, n) ==
  1 + Cardinality({q \in Pairs(us) : q[1] < k \/ (q[1] = k /\ q[2] < n)})

\* C10: the dashboard aggregate of a ListUsers result.  Every listed user carries
\* exactly its stored transactions; total_transactions counts them, total_amount
\* adds their amounts whatever their type, users gives id, username and count per
\* user in list order, and the chart series holds (timestamp, amount) of
\* transaction n of user k at its user-major place.  For carol alone with a
\* credit of 50 and a debit of 20: count 2, amount 70, per-user count 2.
C10_DashboardAggregate ==
  \A p \in Procs :
    Finished(p, "admin_dashboard") /\ req[p].ret.kind = "value" =>
      LET us == req[p].ret.val
          ctx == req[p].resp.body
      IN  /\ \A k \in DOMAIN us :
               /\ Loaded(us[k]) = RowsOf(us[k].id)
               /\ Len(us[k].transactions) = Cardinality(RowsOf(us[k].id))
          /\ ctx.total_transactions = Cardinality(TxRecords(us))
          /\ ctx.total_amount = AmountOf(TxRecords(us))
          /\ DOMAIN ctx.users = DOMAIN us
          /\ \A k \in DOMAIN us :
               ctx.users[k] = [id |-> us[k].id, username |-> us[k].username,
                               transaction_count |-> Cardinality(RowsOf(us[k].id))]
          /\ Len(ctx.transaction_data.dates) = Cardinality(Pairs(us))
          /\ Len(ctx.transaction_data.amounts) = Cardinality(Pairs(us))
          /\ \A q \in Pairs(us) :
               LET t == us[q[1]].transactions[q[2]]
                   i == Place(us, q[1], q[2])
               IN  /\ ctx.transaction_data.dates[i] = isoformat(t.timestamp)
                   /\ ctx.transaction_data.amounts[i] = t.amount
          /\ ( /\ Len(us) = 1
               /\ us[1].username = "carol"
               /\ [n \in DOMAIN us[1].transactions |->
                     <<us[1].transactions[n].type, us[1].transactions[n].amount>>]
                  = <<(<<"credit", 50>>), (<<"debit", 20>>)>> )
             => /\ ctx.total_transactions = 2
                /\ ctx.total_amount = 70
                /\ ctx.users[1].transaction_count = 2

\* the dashboard of carol with a credit of 50 and a debit of 20 has been built
C10_Witness ==
  \E p \in Procs :
    /\ Finished(p, "admin_dashboard")
    /\ req[p].ret.kind = "value"
    /\ Len(req[p].ret.val) = 1
    /\ req[p].ret.val[1].username = "carol"
    /\ Len(req[p].ret.val[1].transactions) = 2
    /\ req[p].ret.val[1].transactions[1].amount = 50
    /\ req[p].ret.val[1].transactions[2].amount = 20
    /\ req[p].resp.body.total_transactions = 2
    /\ req[p].resp.body.total_amount = 70

\* C11: the data-access layer hands every failure to its caller; the one failure
\* it catches is the IntegrityError inside DeleteUser, answered with 0.  A store
\* failure during DeleteUser is raised, not answered with 0.
C11_OnlyIntegrityErrorSwallowed ==
  \A p \in Procs :
    req[p].pc = "done" /\ "caught" \in DOMAIN req[p].ret =>
      req[p].op = "delete_user" /\ req[p].ret.caught = "IntegrityError"

\* C12: an UpdateUsername that has set the username returns the user with the
\* new username.
C12_UpdateReturnsUpdatedUser ==
  \A p \in Procs :
    /\ Finished(p, "update_user")
    /\ req[p].ret.kind = "value"
    /\ req[p].id \in DOMAIN users
    /\ users[req[p].id] = req[p].username
    => req[p].ret.val.username = req[p].username

\* C13: ListUsers returns the users oldest first (ids are handed out in creation
\* order) and each user's transactions in the order they were added.
C13_ListUsersInsertionOrder ==
  \A p \in Procs :
    Finished(p, "admin_dashboard") /\ req[p].ret.kind = "value" =>
      LET us == req[p].ret.val
      IN  /\ \A i, j \in DOMAIN us : i < j => us[i].id < us[j].id
          /\ \A k \in DOMAIN us :
               \A m, n \in DOMAIN us[k].transactions :
                 m < n => us[k].transactions[m].id < us[k].transactions[n].id
====
